---- MODULE Spec2Model ----
(***************************************************************************)
(* A model of overscape-server's tile pipeline (app/overpass.py):          *)
(*   OverpassClient.query -> CompressedJSONCache.get -> uncached_query ->  *)
(*   _execute_query -> OverpassResponse.as_soundscape_geojson.             *)
(*                                                                         *)
(* Python values are modelled as tagged records [t |-> tag, v |-> payload] *)
(* so that a tuple and a list, or a str and None, stay distinguishable.    *)
(***************************************************************************)
EXTENDS Integers, Sequences, FiniteSets, TLC

(***************************************************************************)
(* Bounds of the model.                                                    *)
(***************************************************************************)
\* longest list of geometry records in one response (GeoSpec)
MaxRecords == 3
\* the clock runs from 0 to MaxTime days
MaxTime == 2

(***************************************************************************)
(* Python values.                                                          *)
(***************************************************************************)
PyNone == [t |-> "none", v |-> <<>>]
PyStr(s) == [t |-> "str", v |-> s]
PyInt(n) == [t |-> "int", v |-> n]
PyFloat(n) == [t |-> "float", v |-> n]
PyList(items) == [t |-> "list", v |-> items]
PyTuple(items) == [t |-> "tuple", v |-> items]
\* a dict is its items in insertion order, each <<key, value>>
PyDict(items) == [t |-> "dict", v |-> items]
\* an exception propagating out of a call
Raise(e) == [t |-> "raise", v |-> e]

IsRaise(x) == x.t = "raise"

\* k in d
DictHas(d, k) == \E i \in 1..Len(d.v) : d.v[i][1] = k
\* d[k]
DictGet(d, k) == d.v[CHOOSE i \in 1..Len(d.v) : d.v[i][1] = k][2]

Range(s) == {s[i] : i \in 1..Len(s)}

RECURSIVE Concat(_)
Concat(ss) == IF ss = <<>> THEN <<>> ELSE Head(ss) \o Concat(Tail(ss))

(***************************************************************************)
(* The tag taxonomy (osm_tags.json, loaded into PRIMARY_TAGS): the keys    *)
(* the query matches, as in the docstring of _build_query, with "highway". *)
(***************************************************************************)
PRIMARY_TAGS ==
    PyDict(<< <<"amenity", PyList(<<>>)>>,
              <<"building", PyList(<<>>)>>,
              <<"highway", PyList(<<>>)>>,
              <<"railway", PyList(<<PyStr("station"), PyStr("tram_stop")>>)>> >>)

(***************************************************************************)
(* The geometry-conversion collaborator (osm2geojson).  One item per OSM   *)
(* element: [id, tags, shape], shape = [geom_type, coords].  json2geojson  *)
(* and json2shapes present the same items, as a GeoJSON feature and as a   *)
(* shapely shape.                                                          *)
(***************************************************************************)
Item(id, tags, shape) == [id |-> id, tags |-> tags, shape |-> shape]
PointShape(p) == [geom_type |-> "Point", coords |-> <<p>>]
LineShape(ps) == [geom_type |-> "LineString", coords |-> ps]

\* a coordinate pair as shapely gives it: a tuple of floats
Coord(p) == PyTuple(<<PyFloat(p[1]), PyFloat(p[2])>>)

\* shapely.geometry.mapping
mapping(shape) ==
    IF shape.geom_type = "Point"
    THEN PyDict(<< <<"type", PyStr("Point")>>,
                   <<"coordinates", Coord(shape.coords[1])>> >>)
    ELSE PyDict(<< <<"type", PyStr(shape.geom_type)>>,
                   <<"coordinates",
                     PyTuple([i \in 1..Len(shape.coords) |-> Coord(shape.coords[i])])>> >>)

(***************************************************************************)
(* OverpassResponse                                                        *)
(***************************************************************************)
\* [(k, v) for (k, v) in tags.items() if k in PRIMARY_TAGS]
PrimaryItems(tags) == SelectSeq(tags.v, LAMBDA kv : DictHas(PRIMARY_TAGS, kv[1]))

\* mutant: osm_ids is left empty
_item_to_soundscape_geojson_no_ids(item) ==
    LET primary == PrimaryItems(item.tags)
    IN  IF primary = <<>>
        THEN Raise("IndexError")
        ELSE PyDict(<< <<"feature_type", PyStr(primary[1][1])>>,
                       <<"feature_value", primary[1][2]>>,
                       <<"geometry", mapping(item.shape)>>,
                       <<"osm_ids", PyList(<<>>)>>,
                       <<"properties", item.tags>>,
                       <<"type", PyStr("Feature")>> >>)

\* mutant: an item without a primary tag is given a placeholder type
_item_to_soundscape_geojson_lenient(item) ==
    LET primary == PrimaryItems(item.tags) \o << <<"unknown", PyStr("")>> >>
    IN  PyDict(<< <<"feature_type", PyStr(primary[1][1])>>,
                  <<"feature_value", primary[1][2]>>,
                  <<"geometry", mapping(item.shape)>>,
                  <<"osm_ids", PyList(<<PyInt(item.id)>>)>>,
                  <<"properties", item.tags>>,
                  <<"type", PyStr("Feature")>> >>)

_item_to_soundscape_geojson(item) ==
    LET primary == PrimaryItems(item.tags)
    IN  IF primary = <<>>
        THEN Raise("IndexError")
        ELSE PyDict(<< <<"feature_type", PyStr(primary[1][1])>>,
                       <<"feature_value", primary[1][2]>>,
                       <<"geometry", mapping(item.shape)>>,
                       <<"osm_ids", PyList(<<PyInt(item.id)>>)>>,
                       <<"properties", item.tags>>,
                       <<"type", PyStr("Feature")>> >>)

\* point_to_osm_ids.setdefault(point, []).append(id); the dict is its
\* entries <<point, oids>> in insertion order
SetDefaultAppend(d, point, id) ==
    IF \E i \in 1..Len(d) : d[i][1] = point
    THEN [i \in 1..Len(d) |->
            IF d[i][1] = point THEN <<point, Append(d[i][2], id)>> ELSE d[i]]
    ELSE Append(d, <<point, <<id>>>>)

\* for point in mapping(item["shape"])["coordinates"]: ...
RECURSIVE ScanCoordinates(_, _, _)
ScanCoordinates(d, coords, id) ==
    IF coords = <<>> THEN d
    ELSE ScanCoordinates(SetDefaultAppend(d, Head(coords), id), Tail(coords), id)

\* mutant: every LineString counts, tagged highway or not
Qualifies_any_line(item) == item.shape.geom_type = "LineString"

\* if item["shape"].geom_type == "LineString" and "highway" in tags
Qualifies(item) ==
    item.shape.geom_type = "LineString" /\ DictHas(item.tags, "highway")

\* for item in self.shapes_json: if ...: for point in ...
RECURSIVE ScanItems(_, _)
ScanItems(d, items) ==
    IF items = <<>> THEN d
    ELSE ScanItems(
            IF Qualifies(Head(items))
            THEN ScanCoordinates(d, Head(items).shape.coords, Head(items).id)
            ELSE d,
            Tail(items))

IntersectionFeature(p, oids) ==
    PyDict(<< <<"feature_type", PyStr("highway")>>,
              <<"feature_value", PyStr("gd_intersection")>>,
              <<"geometry", mapping(PointShape(p))>>,
              <<"osm_ids", PyList([i \in 1..Len(oids) |-> PyInt(oids[i])])>>,
              <<"properties", PyDict(<<>>)>>,
              <<"type", PyStr("Feature")>> >>)

\* the features the generator yields, in order
_compute_intersections(items) ==
    LET point_to_osm_ids == ScanItems(<<>>, items)
        shared == SelectSeq(point_to_osm_ids, LAMBDA e : Len(e[2]) > 1)
    IN  [i \in 1..Len(shared) |-> IntersectionFeature(shared[i][1], shared[i][2])]

\* mutant: the intersections come first
as_soundscape_geojson_intersections_first(items) ==
    LET simple == [i \in 1..Len(items) |-> _item_to_soundscape_geojson(items[i])]
    IN  IF \E i \in 1..Len(simple) : IsRaise(simple[i])
        THEN Raise("IndexError")
        ELSE PyDict(<< <<"features", PyList(_compute_intersections(items) \o simple)>>,
                       <<"type", PyStr("FeatureCollection")>> >>)

as_soundscape_geojson(items) ==
    LET simple == [i \in 1..Len(items) |-> _item_to_soundscape_geojson(items[i])]
    IN  IF \E i \in 1..Len(simple) : IsRaise(simple[i])
        THEN Raise("IndexError")
        ELSE PyDict(<< <<"features", PyList(simple \o _compute_intersections(items))>>,
                       <<"type", PyStr("FeatureCollection")>> >>)

(***************************************************************************)
(* JSON and gzip, as CompressedJSONCache uses them.  A JSON document is    *)
(* modelled by its syntax tree: json.dumps writes a list and a tuple both  *)
(* as an array, json.loads reads an array back as a list.  A file's bytes  *)
(* are [gzip, text]: whether they are a gzip stream, and what it holds.    *)
(***************************************************************************)
Garbage(s) == [t |-> "garbage", v |-> s]

RECURSIVE json_dumps(_)
json_dumps(x) ==
    CASE x.t = "none" -> [t |-> "null", v |-> <<>>]
      [] x.t = "str" -> [t |-> "string", v |-> x.v]
      [] x.t = "int" -> [t |-> "integer", v |-> x.v]
      [] x.t = "float" -> [t |-> "real", v |-> x.v]
      [] x.t \in {"list", "tuple"} ->
            [t |-> "array", v |-> [i \in 1..Len(x.v) |-> json_dumps(x.v[i])]]
      [] x.t = "dict" ->
            [t |-> "object",
             v |-> [i \in 1..Len(x.v) |-> <<x.v[i][1], json_dumps(x.v[i][2])>>]]

RECURSIVE json_loads(_)
json_loads(doc) ==
    CASE doc.t = "garbage" -> Raise("JSONDecodeError")
      [] doc.t = "null" -> PyNone
      [] doc.t = "string" -> PyStr(doc.v)
      [] doc.t = "integer" -> PyInt(doc.v)
      [] doc.t = "real" -> PyFloat(doc.v)
      [] doc.t = "array" -> PyList([i \in 1..Len(doc.v) |-> json_loads(doc.v[i])])
      [] doc.t = "object" ->
            PyDict([i \in 1..Len(doc.v) |-> <<doc.v[i][1], json_loads(doc.v[i][2])>>])

gzip_compress(text) == [gzip |-> TRUE, text |-> text]
gzip_decompress(data) == IF data.gzip THEN data.text ELSE Raise("BadGzipFile")

(***************************************************************************)
(* CompressedJSONCache (cache.py): one file <key>.json.gz per entry.  The  *)
(* directory is a function from the keys that have a file to               *)
(* [mtime, data, orig]; orig records the value a get wrote (Unset for a    *)
(* file written from outside) and is read by no operation.                 *)
(***************************************************************************)
CompressedJSONCache(dir, max_days, max_entries) ==
    [dir |-> dir, max_days |-> max_days, max_entries |-> max_entries]

\* An entry is read strictly after it was written, so with whole days on
\* the clock it is older than max_days once max_days ticks have passed;
\* max_days = 0 never serves an entry.
Expired(entry, t, max_days) == t - entry.mtime >= max_days

\* read, decompress, parse: the value, or the exception of the failing step
ReadEntry(entry) ==
    LET text == gzip_decompress(entry.data)
    IN  IF IsRaise(text) THEN text ELSE json_loads(text)

Remove(files, key) == [k \in DOMAIN files \ {key} |-> files[k]]
WriteEntry(files, key, t, value) ==
    [k \in DOMAIN files \cup {key} |->
        IF k = key
        THEN [mtime |-> t, data |-> gzip_compress(json_dumps(value)), orig |-> value]
        ELSE files[k]]

\* the directories that deleting oldest-first (by mtime) down to
\* max_entries files may leave; files of equal mtime go in either order
Evict(files, max_entries) ==
    LET keep == IF Cardinality(DOMAIN files) > max_entries
                THEN max_entries ELSE Cardinality(DOMAIN files)
    IN  {[k \in K |-> files[k]] :
            K \in {S \in SUBSET DOMAIN files :
                     /\ Cardinality(S) = keep
                     /\ \A d \in DOMAIN files \ S : \A r \in S :
                           files[d].mtime <= files[r].mtime}}

\* mutant: a file that cannot be read fails the call
cache_get_unguarded(cache, files, t, key, fetched) ==
    LET present == key \in DOMAIN files
        fresh == present /\ ~Expired(files[key], t, cache.max_days)
        parsed == IF fresh THEN ReadEntry(files[key]) ELSE Raise("FileNotFoundError")
        cleared == Remove(files, key)
    IN  IF ~IsRaise(parsed) \/ parsed.v # "FileNotFoundError"
        THEN {[files |-> files, value |-> parsed, called |-> FALSE]}
        ELSE IF IsRaise(fetched) \/ fetched.t = "none"
        THEN {[files |-> cleared, value |-> fetched, called |-> TRUE]}
        ELSE {[files |-> kept, value |-> fetched, called |-> TRUE] :
                 kept \in Evict(WriteEntry(cleared, key, t, fetched), cache.max_entries)}

\* get(key, fetch_func) at time t, fetched being what fetch_func() gives
\* if called: the outcomes [files, value, called]
cache_get(cache, files, t, key, fetched) ==
    LET present == key \in DOMAIN files
        fresh == present /\ ~Expired(files[key], t, cache.max_days)
        parsed == IF fresh THEN ReadEntry(files[key]) ELSE Raise("FileNotFoundError")
        cleared == Remove(files, key)
    IN  IF ~IsRaise(parsed)
        THEN {[files |-> files, value |-> parsed, called |-> FALSE]}
        ELSE IF IsRaise(fetched) \/ fetched.t = "none"
        THEN {[files |-> cleared, value |-> fetched, called |-> TRUE]}
        ELSE {[files |-> kept, value |-> fetched, called |-> TRUE] :
                 kept \in Evict(WriteEntry(cleared, key, t, fetched), cache.max_entries)}

(***************************************************************************)
(* OverpassClient                                                          *)
(***************************************************************************)
\* mutant: cache_days and cache_size change places
OverpassClient_swapped(server, user_agent, cache_dir, cache_days, cache_size) ==
    [server |-> server,
     user_agent |-> user_agent,
     cache |-> CompressedJSONCache(cache_dir, cache_size, cache_days)]

OverpassClient(server, user_agent, cache_dir, cache_days, cache_size) ==
    [server |-> server,
     user_agent |-> user_agent,
     cache |-> CompressedJSONCache(cache_dir, cache_days, cache_size)]

\* what requests.get meets: an exception, or a response [status, body];
\* body is what response.json() and osm2geojson make of it: the items, or
\* not JSON at all
NoBody == [json |-> FALSE, items |-> <<>>]
JsonBody(its) == [json |-> TRUE, items |-> its]
Failure(e) == [kind |-> e, status |-> 0, body |-> NoBody]
Response(status, body) == [kind |-> "response", status |-> status, body |-> body]

\* OverpassResponse(overpass_json)
OverpassResponse(its) == [t |-> "OverpassResponse", v |-> its]

\* the tile's query text: the bounding box stands for tile_bbox_from_x_y
_build_query(x, y) == <<"[out:json][bbox:", x, y, "];(", PRIMARY_TAGS, ");out geom;">>

\* mutant: only the error statuses, 400 and above, are refused
_execute_query_errors_only(self, q, net) ==
    IF net.kind \in {"ConnectionError", "Timeout"}
    THEN [value |-> PyNone,
          log |-> << <<"error connecting to ", self.server, ": ", net.kind>> >>]
    ELSE IF net.kind # "response"
    THEN [value |-> Raise(net.kind), log |-> <<>>]
    ELSE IF net.status >= 400
    THEN [value |-> PyNone,
          log |-> << <<"received ", net.status, " from ", self.server>> >>]
    ELSE IF ~net.body.json
    THEN [value |-> Raise("JSONDecodeError"), log |-> <<>>]
    ELSE [value |-> OverpassResponse(net.body.items), log |-> <<>>]

\* [value, log]: what the call returns or raises, and the warnings it logs
_execute_query(self, q, net) ==
    IF net.kind \in {"ConnectionError", "Timeout"}
    THEN [value |-> PyNone,
          log |-> << <<"error connecting to ", self.server, ": ", net.kind>> >>]
    ELSE IF net.kind # "response"
    THEN [value |-> Raise(net.kind), log |-> <<>>]
    ELSE IF net.status # 200
    THEN [value |-> PyNone,
          log |-> << <<"received ", net.status, " from ", self.server>> >>]
    ELSE IF ~net.body.json
    THEN [value |-> Raise("JSONDecodeError"), log |-> <<>>]
    ELSE [value |-> OverpassResponse(net.body.items), log |-> <<>>]

\* mutant: a failed execution gives an empty collection instead of None
uncached_query_never_none(self, x, y, net) ==
    LET overpass_response == _execute_query(self, _build_query(x, y), net)
    IN  IF IsRaise(overpass_response.value)
        THEN overpass_response
        ELSE [value |-> IF overpass_response.value.t = "none"
                        THEN as_soundscape_geojson(<<>>)
                        ELSE as_soundscape_geojson(overpass_response.value.v),
              log |-> overpass_response.log]

uncached_query(self, x, y, net) ==
    LET q == _build_query(x, y)
        overpass_response == _execute_query(self, q, net)
    IN  IF overpass_response.value.t = "none" \/ IsRaise(overpass_response.value)
        THEN overpass_response
        ELSE [value |-> as_soundscape_geojson(overpass_response.value.v),
              log |-> overpass_response.log]

TileKey(x, y) == ToString(x) \o "_" \o ToString(y)

\* mutant: query hands the cache the fetched value instead of a lambda, so
\* the request is sent on a hit as well
query_eager(self, files, t, x, y, net) ==
    LET fetched == uncached_query(self, x, y, net)
    IN  {[files |-> r.files, value |-> r.value, requests |-> 1, log |-> fetched.log] :
            r \in cache_get(self.cache, files, t, TileKey(x, y), fetched.value)}

\* query(x, y) at time t on the directory files, the network answering
\* net: the outcomes [files, value, requests, log]
query(self, files, t, x, y, net) ==
    LET fetched == uncached_query(self, x, y, net)
    IN  {[files |-> r.files,
          value |-> r.value,
          requests |-> IF r.called THEN 1 ELSE 0,
          log |-> IF r.called THEN fetched.log ELSE <<>>] :
            r \in cache_get(self.cache, files, t, TileKey(x, y), fetched.value)}

(***************************************************************************)
(* State.                                                                  *)
(***************************************************************************)
VARIABLES
    \* the response in hand: the collaborator's items for one raw response
    overpass_json,
    \* what as_soundscape_geojson returned for it (Unset before the call)
    geojson,
    \* what list(_compute_intersections()) gave for it (Unset before the call)
    intersections,
    \* the arguments the OverpassClient was constructed with
    settings,
    \* the OverpassClient, as constructed
    client,
    \* the cache directory
    files,
    \* the clock, in days
    now,
    \* the last completed call: what it was given, returned and logged
    last,
    \* history: TRUE while every get was for a key no get had before and no
    \* file was written from outside the cache
    plain,
    \* history: the keys got while plain
    keys_got,
    \* history: the latest mtime among the files deleted while plain (-1: none)
    deleted_max

geoVars == <<overpass_json, geojson, intersections>>
cacheVars == <<settings, client, files, now, last, plain, keys_got, deleted_max>>
vars == <<geoVars, cacheVars>>

Unset == [t |-> "unset", v |-> <<>>]

(***************************************************************************)
(* The responses GeoSpec transforms: lists of up to MaxRecords items.      *)
(* OSM numbers nodes and ways separately: an id is unique among the nodes  *)
(* (Points) and among the ways (LineStrings) of a response, not across.    *)
(***************************************************************************)
WayIds == 1..3
NodeIds == 1..2
PtA == <<0, 0>>
PtB == <<1, 0>>
PtC == <<1, 1>>
Points == {PtA, PtB, PtC}
NodeShapes == {PointShape(PtB)}
WayShapes == {LineShape(<<PtA, PtB>>), LineShape(<<PtC, PtB>>), LineShape(<<PtA, PtB, PtA>>)}
TagsHighway == PyDict(<< <<"highway", PyStr("residential")>> >>)
TagsBuilding == PyDict(<< <<"building", PyStr("yes")>> >>)
TagsMixed == PyDict(<< <<"name", PyStr("Main")>>, <<"building", PyStr("yes")>>,
                       <<"highway", PyStr("service")>> >>)
TagsUnknown == PyDict(<< <<"name", PyStr("Main")>> >>)
TagSets == {TagsHighway, TagsBuilding, TagsMixed, TagsUnknown}
Items == {Item(id, tags, shape) : id \in NodeIds, tags \in TagSets, shape \in NodeShapes}
         \cup {Item(id, tags, shape) : id \in WayIds, tags \in TagSets, shape \in WayShapes}

SameElement(a, b) == a.id = b.id /\ a.shape.geom_type = b.shape.geom_type

(***************************************************************************)
(* What the client and cache specification draws from.                     *)
(***************************************************************************)
Server == "https://overpass.kumi.systems/api/interpreter/"
\* the cache_days and cache_size a client is constructed with
CacheDays == 0..2
CacheSizes == 1..2
Tiles == {<<1, 1>>, <<2, 2>>}
Keys == {TileKey(tile[1], tile[2]) : tile \in Tiles} \cup {"foo"}

CrossItems ==
    <<Item(1, TagsHighway, LineShape(<<PtA, PtB>>)),
      Item(2, TagsMixed, LineShape(<<PtC, PtB>>)),
      Item(1, TagsBuilding, PointShape(PtB))>>
UntaggedLast ==
    <<Item(1, TagsHighway, LineShape(<<PtA, PtB>>)), Item(3, TagsUnknown, PointShape(PtB))>>
Bodies == {NoBody, JsonBody(<<>>), JsonBody(CrossItems), JsonBody(UntaggedLast)}
Nets == {Failure("ConnectionError"), Failure("Timeout"), Failure("TooManyRedirects"),
         Response(201, JsonBody(<<>>)), Response(500, NoBody)}
        \cup {Response(200, body) : body \in Bodies}
NoNet == Failure("none")
\* one answer for each path through uncached_query
QueryNets == {Failure("ConnectionError"), Response(500, NoBody), Response(200, JsonBody(<<>>)),
              Response(200, JsonBody(CrossItems)), Response(200, JsonBody(UntaggedLast))}

\* the values the direct cache.get calls compute
Values == {PyStr(""), PyNone, PyDict(<< <<"a", PyList(<<PyInt(1), PyFloat(1)>>)>> >>)}

\* the file of key as a call finds it: its age in days, bytes and origin
Absent == [present |-> FALSE, age |-> 0, data |-> gzip_compress(Garbage("")), orig |-> Unset]
Before(key) ==
    IF key \in DOMAIN files
    THEN [present |-> TRUE, age |-> now - files[key].mtime, data |-> files[key].data,
          orig |-> files[key].orig]
    ELSE Absent

\* a call: op(key), what the network answered if asked (net) or what the
\* compute function had to give (given); whether the compute function was
\* called, the requests sent, the value returned or raised, and the
\* warnings logged
NoCall ==
    [op |-> "none", key |-> "", net |-> NoNet, given |-> Unset, called |-> FALSE,
     value |-> Unset, requests |-> 0, log |-> <<>>, pre |-> Absent, after_failure |-> FALSE]
Call(op, key, net, given, called, value, requests, log) ==
    [op |-> op, key |-> key, net |-> net, given |-> given, called |-> called,
     value |-> value, requests |-> requests, log |-> log, pre |-> Before(key),
     after_failure |-> /\ last.op = "query" /\ last.key = key
                       /\ last.requests = 1 /\ last.value.t = "none"]

Max(a, b) == IF a >= b THEN a ELSE b
SetMax(S, least) == IF S = {} THEN least ELSE CHOOSE m \in S : \A n \in S : n <= m

GeoIdle ==
    /\ overpass_json = <<>>
    /\ geojson = Unset
    /\ intersections = Unset

CacheIdle ==
    /\ settings = [cache_days |-> 0, cache_size |-> 1]
    /\ client = OverpassClient(Server, "Overscape/0.1", "_test_cache", 0, 1)
    /\ files = <<>>
    /\ now = 0
    /\ last = NoCall
    /\ plain = TRUE
    /\ keys_got = {}
    /\ deleted_max = -1

(***************************************************************************)
(* Spec: the client and its cache.                                         *)
(***************************************************************************)
Init ==
    /\ GeoIdle
    /\ \E cache_days \in CacheDays, cache_size \in CacheSizes :
          /\ settings = [cache_days |-> cache_days, cache_size |-> cache_size]
          /\ client = OverpassClient(Server, "Overscape/0.1", "_test_cache",
                                     cache_days, cache_size)
    /\ files = <<>>
    /\ now = 0
    /\ last = NoCall
    /\ plain = TRUE
    /\ keys_got = {}
    /\ deleted_max = -1

\* the history of a get for key that left the directory as after, having
\* written the key's file or not
Got(key, after, wrote) ==
    LET still == plain /\ key \notin keys_got
        gone == {files[k].mtime : k \in DOMAIN files \ DOMAIN after}
                \cup (IF wrote /\ key \notin DOMAIN after THEN {now} ELSE {})
    IN  /\ plain' = still
        /\ keys_got' = IF still THEN keys_got \cup {key} ELSE {}
        /\ deleted_max' = IF still THEN Max(deleted_max, SetMax(gone, -1)) ELSE -1

\* client.query(x, y), the network answering net
Query(x, y, net) ==
    \E r \in query(client, files, now, x, y, net) :
        /\ files' = r.files
        /\ last' = Call("query", TileKey(x, y), IF r.requests = 1 THEN net ELSE NoNet,
                        Unset, r.requests = 1, r.value, r.requests, r.log)
        /\ Got(TileKey(x, y), r.files, r.requests = 1 /\ r.value.t \notin {"none", "raise"})
        /\ UNCHANGED <<geoVars, settings, client, now>>

\* client.cache.get(key, lambda: value)
CacheGet(key, value) ==
    \E r \in cache_get(client.cache, files, now, key, value) :
        /\ files' = r.files
        /\ last' = Call("get", key, NoNet, value, r.called, r.value, 0, <<>>)
        /\ Got(key, r.files, r.called /\ r.value.t \notin {"none", "raise"})
        /\ UNCHANGED <<geoVars, settings, client, now>>

\* a file written into the cache directory from outside
WriteFile(key, data) ==
    /\ files' = [k \in DOMAIN files \cup {key} |->
                    IF k = key THEN [mtime |-> now, data |-> data, orig |-> Unset]
                    ELSE files[k]]
    /\ last' = NoCall
    /\ plain' = FALSE
    /\ keys_got' = {}
    /\ deleted_max' = -1
    /\ UNCHANGED <<geoVars, settings, client, now>>

\* f.write("not gzipped")
CorruptGzip(key) == WriteFile(key, [gzip |-> FALSE, text |-> Garbage("not gzipped")])

\* gzip.open(...).write(b"not json")
CorruptJson(key) == WriteFile(key, gzip_compress(Garbage("not json")))

\* a day passes
Tick ==
    /\ now < MaxTime
    /\ now' = now + 1
    /\ UNCHANGED <<geoVars, settings, client, files, last, plain, keys_got, deleted_max>>

Next ==
    \/ \E tile \in Tiles, net \in QueryNets : Query(tile[1], tile[2], net)
    \/ \E value \in Values : CacheGet("foo", value)
    \/ \E key \in Keys : CorruptGzip(key)
    \/ \E key \in Keys : CorruptJson(key)
    \/ Tick

Spec == Init /\ [][Next]_vars

(***************************************************************************)
(* ExecSpec: _execute_query called on its own, as the tests call it.       *)
(***************************************************************************)
\* client._execute_query(client._build_query(x, y))
ExecuteQuery(x, y, net) ==
    LET r == _execute_query(client, _build_query(x, y), net)
    IN  /\ last' = [NoCall EXCEPT !.op = "execute", !.key = TileKey(x, y), !.net = net,
                                   !.called = TRUE, !.value = r.value, !.requests = 1,
                                   !.log = r.log]
        /\ UNCHANGED <<geoVars, settings, client, files, now, plain, keys_got, deleted_max>>

ExecNext == \E tile \in Tiles, net \in Nets : ExecuteQuery(tile[1], tile[2], net)

ExecSpec == Init /\ [][ExecNext]_vars

(***************************************************************************)
(* GeoSpec: the transformation of one response.                            *)
(***************************************************************************)
GeoInit == GeoIdle /\ CacheIdle

\* the query service answers with one more element
AddItem(item) ==
    /\ Len(overpass_json) < MaxRecords
    /\ geojson = Unset /\ intersections = Unset
    /\ \A i \in 1..Len(overpass_json) : ~SameElement(overpass_json[i], item)
    /\ overpass_json' = Append(overpass_json, item)
    /\ UNCHANGED <<geojson, intersections, cacheVars>>

\* OverpassResponse(...).as_soundscape_geojson()
AsSoundscapeGeojson ==
    /\ geojson = Unset
    /\ geojson' = as_soundscape_geojson(overpass_json)
    /\ UNCHANGED <<overpass_json, intersections, cacheVars>>

\* list(overpass_response._compute_intersections())
ComputeIntersections ==
    /\ intersections = Unset
    /\ intersections' = PyList(_compute_intersections(overpass_json))
    /\ UNCHANGED <<overpass_json, geojson, cacheVars>>

GeoNext ==
    \/ \E item \in Items : AddItem(item)
    \/ AsSoundscapeGeojson
    \/ ComputeIntersections

GeoSpec == GeoInit /\ [][GeoNext]_vars

(***************************************************************************)
(* Reading a feature collection.                                           *)
(***************************************************************************)
IsCollection(x) == x.t = "dict"
Features(fc) == DictGet(fc, "features").v
OsmIdsOf(f) == [i \in 1..Len(DictGet(f, "osm_ids").v) |-> DictGet(f, "osm_ids").v[i].v]
\* the features after the one-per-item simple features
SimpleOf(fc) == SubSeq(Features(fc), 1, Len(overpass_json))
IntersectionsOf(fc) == SubSeq(Features(fc), Len(overpass_json) + 1, Len(Features(fc)))
PointGeometry(p) ==
    PyDict(<< <<"type", PyStr("Point")>>,
              <<"coordinates", PyTuple(<<PyFloat(p[1]), PyFloat(p[2])>>)>> >>)

\* how many simple features of fc have osm_ids = [id]
SoleCount(fc, id) ==
    Cardinality({i \in 1..Len(SimpleOf(fc)) : OsmIdsOf(SimpleOf(fc)[i]) = <<id>>})

IdsPairwiseDistinct ==
    \A i, j \in 1..Len(overpass_json) :
        i # j => overpass_json[i].id # overpass_json[j].id

Occurrences ==
    Concat([i \in 1..Len(overpass_json) |->
        IF /\ overpass_json[i].shape.geom_type = "LineString"
           /\ \E j \in 1..Len(overpass_json[i].tags.v) :
                 overpass_json[i].tags.v[j][1] = "highway"
        THEN [j \in 1..Len(overpass_json[i].shape.coords) |->
                <<overpass_json[i].shape.coords[j], overpass_json[i].id>>]
        ELSE <<>>])
IdList(p) ==
    LET at == SelectSeq(Occurrences, LAMBDA o : o[1] = p)
    IN  [i \in 1..Len(at) |-> at[i][2]]

C9_TwoDistinctWays ==
    intersections # Unset =>
        \A k \in 1..Len(intersections.v) :
            Cardinality(Range(OsmIdsOf(intersections.v[k]))) >= 2

C9_Witness ==
    /\ intersections # Unset
    /\ \E k \in 1..Len(intersections.v) : OsmIdsOf(intersections.v[k]) = <<1, 1>>

TaxonomyKeys == {PRIMARY_TAGS.v[i][1] : i \in 1..Len(PRIMARY_TAGS.v)}

\* f is the simple feature of item: typed by the first taxonomy key of the
\* item's tags, in tag order
IsSimpleFeatureOf(f, item) ==
    /\ \E j \in 1..Len(item.tags.v) :
          /\ item.tags.v[j][1] \in TaxonomyKeys
          /\ \A h \in 1..(j - 1) : item.tags.v[h][1] \notin TaxonomyKeys
          /\ DictGet(f, "feature_type") = PyStr(item.tags.v[j][1])
          /\ DictGet(f, "feature_value") = item.tags.v[j][2]
    /\ DictGet(f, "feature_type").v \in TaxonomyKeys
    /\ DictGet(f, "osm_ids") = PyList(<<PyInt(item.id)>>)
    /\ DictGet(f, "properties") = item.tags
    /\ DictGet(f, "geometry") = mapping(item.shape)
    /\ DictGet(f, "type") = PyStr("Feature")
    /\ Len(f.v) = 6

(* C8: as_soundscape_geojson returns, in order, one simple feature per     *)
(* item (typed by the first taxonomy key of its tags, osm_ids = [id],      *)
(* properties = the tags, geometry copied) and then all the intersection   *)
(* features.                                                               *)
C8_FeatureOrder ==
    IsCollection(geojson) =>
        /\ DictGet(geojson, "type") = PyStr("FeatureCollection")
        /\ Len(Features(geojson)) >= Len(overpass_json)
        /\ \A i \in 1..Len(overpass_json) :
              IsSimpleFeatureOf(Features(geojson)[i], overpass_json[i])
        /\ \A k \in 1..Len(IntersectionsOf(geojson)) :
              DictGet(IntersectionsOf(geojson)[k], "feature_value") = PyStr("gd_intersection")
        /\ \A p \in Points :
              (Len(IdList(p)) > 1) <=>
                 \E k \in 1..Len(IntersectionsOf(geojson)) :
                    DictGet(IntersectionsOf(geojson)[k], "geometry") = PointGeometry(p)
        /\ intersections # Unset => IntersectionsOf(geojson) = intersections.v

C8_Witness ==
    /\ IsCollection(geojson)
    /\ intersections # Unset
    /\ Len(overpass_json) = 3
    /\ Len(IntersectionsOf(geojson)) = 2
    /\ \E i \in 1..3 : /\ overpass_json[i].tags = TagsMixed
                       /\ DictGet(Features(geojson)[i], "feature_type") = PyStr("building")

(***************************************************************************)
(* The client and cache claims, read off the last call.                    *)
(***************************************************************************)
\* the file the call found could not serve it: none, too old, or corrupt
CannotDecompress(data) == ~data.gzip
InvalidJson(data) == data.gzip /\ data.text.t = "garbage"
TooOld(age) == age >= settings.cache_days
Missed ==
    \/ ~last.pre.present
    \/ TooOld(last.pre.age)
    \/ CannotDecompress(last.pre.data)
    \/ InvalidJson(last.pre.data)

\* connection error, timeout or non-success status
ExecutionFails(net) ==
    \/ net.kind \in {"ConnectionError", "Timeout"}
    \/ net.kind = "response" /\ net.status \notin 200..299

(* C1: a query that misses the cache and whose execution fails returns     *)
(* None and leaves no entry for its key, and the query that follows for    *)
(* the same tile sends the request again.                                  *)
C1_FailureNotCached ==
    /\ (last.op = "query" /\ Missed /\ ExecutionFails(last.net)) =>
          /\ last.value = PyNone
          /\ last.requests = 1
          /\ last.key \notin DOMAIN files
    /\ (last.op = "query" /\ last.after_failure) => last.requests = 1

C1_Witness ==
    /\ last.op = "query"
    /\ last.after_failure
    /\ last.net = Response(500, NoBody)
    /\ last.value = PyNone
    /\ DOMAIN files # {}

\* the value with its tuples read as lists
RECURSIVE AsLists(_)
AsLists(x) ==
    CASE x.t \in {"list", "tuple"} -> PyList([i \in 1..Len(x.v) |-> AsLists(x.v[i])])
      [] x.t = "dict" -> PyDict([i \in 1..Len(x.v) |-> <<x.v[i][1], AsLists(x.v[i][2])>>])
      [] OTHER -> x

\* the call found the file a get had written, still in place and in time
FoundStored ==
    /\ last.op \in {"query", "get"}
    /\ last.pre.present
    /\ last.pre.orig # Unset
    /\ last.pre.age < settings.cache_days

(* C2: a get that finds the entry an earlier get stored (not expired, not  *)
(* evicted, not overwritten) returns the stored value, a JSON value as it  *)
(* was and a tuple as a list, without calling the compute function; a      *)
(* query sends no request.                                                 *)
C2_RoundTrip ==
    FoundStored =>
        /\ last.value = AsLists(last.pre.orig)
        /\ ~last.called
        /\ last.requests = 0
        /\ last.log = <<>>
        /\ last.key \in DOMAIN files /\ files[last.key].orig = last.pre.orig

C2_Witness ==
    /\ FoundStored
    /\ last.op = "query"
    /\ last.net = NoNet
    /\ last.pre.orig = as_soundscape_geojson(CrossItems)
    /\ last.value # last.pre.orig

(* C3: a get whose entry file cannot be decompressed, or decompresses to   *)
(* invalid JSON, returns the freshly computed value and does not raise.    *)
C3_CorruptionRecovery ==
    (/\ last.op = "get"
     /\ last.pre.present
     /\ CannotDecompress(last.pre.data) \/ InvalidJson(last.pre.data)) =>
        /\ last.value = last.given
        /\ last.called
        /\ ~IsRaise(last.value)

C3_Witness ==
    /\ last.op = "get"
    /\ last.pre.present
    /\ InvalidJson(last.pre.data)
    /\ ~TooOld(last.pre.age)
    /\ last.value = PyStr("")
    /\ last.key \in DOMAIN files /\ files[last.key].orig = PyStr("")

(* C4: while every get is for a key of its own, the directory holds at     *)
(* most cache_size entries after each get, and no deleted entry was        *)
(* written later than an entry that remains.                               *)
C4_Eviction ==
    plain =>
        /\ Cardinality(DOMAIN files) <= settings.cache_size
        /\ \A k \in DOMAIN files : deleted_max <= files[k].mtime

C4_Witness ==
    /\ plain
    /\ last.op \in {"query", "get"}
    /\ settings.cache_size = 2
    /\ Cardinality(DOMAIN files) = 2
    /\ deleted_max >= 0
    /\ \E k \in DOMAIN files : files[k].mtime > deleted_max

(* C5 as stated: _execute_query returns the parsed body and logs nothing   *)
(* for every 2xx status; it returns None with one warning otherwise.       *)
C5_Every2xx ==
    (last.op = "execute" /\ last.net.kind = "response" /\ last.net.body.json) =>
        IF last.net.status \in 200..299
        THEN last.value = OverpassResponse(last.net.body.items) /\ last.log = <<>>
        ELSE last.value = PyNone /\ Len(last.log) = 1

(* C5 amended: _execute_query returns None and logs exactly one warning    *)
(* when the connection fails or times out ("error connecting") or the      *)
(* status is any other than 200 ("received <status>"); for status 200 with *)
(* a JSON body it returns the parsed response and logs nothing.            *)
C5_Only200 ==
    last.op = "execute" =>
        /\ last.net.kind \in {"ConnectionError", "Timeout"} =>
              /\ last.value = PyNone
              /\ Len(last.log) = 1
              /\ last.log[1][1] = "error connecting to "
        /\ (last.net.kind = "response" /\ last.net.status # 200) =>
              /\ last.value = PyNone
              /\ Len(last.log) = 1
              /\ last.log[1][1] = "received "
              /\ last.log[1][2] = last.net.status
        /\ (last.net.kind = "response" /\ last.net.status = 200 /\ last.net.body.json) =>
              /\ last.value = OverpassResponse(last.net.body.items)
              /\ last.log = <<>>

C5_Witness ==
    /\ last.op = "execute"
    /\ last.net = Response(201, JsonBody(<<>>))
    /\ last.value = PyNone
    /\ last.log = << <<"received ", 201, " from ", Server>> >>

\* some item of the response carries no key of the taxonomy
HasUntagged(net) ==
    /\ net.kind = "response" /\ net.status = 200 /\ net.body.json
    /\ \E i \in 1..Len(net.body.items) :
          \A j \in 1..Len(net.body.items[i].tags.v) :
             net.body.items[i].tags.v[j][1] \notin TaxonomyKeys

(* C10: a response with an item that carries no taxonomy key ends the      *)
(* query in an error: no collection is returned, and no cache entry is     *)
(* written for the tile.                                                   *)
C10_UntaggedIsFatal ==
    (last.op = "query" /\ Missed /\ HasUntagged(last.net)) =>
        /\ IsRaise(last.value)
        /\ last.requests = 1
        /\ last.key \notin DOMAIN files

C10_Witness ==
    /\ last.op = "query"
    /\ last.net = Response(200, JsonBody(UntaggedLast))
    /\ last.pre.present
    /\ last.value = Raise("IndexError")

====
